---- MODULE Spec2Model ----
(***************************************************************************)
(* dockermon: a watchdog on the docker /events stream.  The policy state   *)
(* (event history, restart records, eligibility cache) is kept by one of   *)
(* three classes of the repository, each a state machine over the decoded  *)
(* events:                                                                 *)
(*   DockerMon.watch                     src/dockermon.py                  *)
(*   RestartService.handle_docker_event  src/restartservice.py             *)
(*   EventBroadcaster.broadcast_event    src/eventbroadcaster.py           *)
(* The sources are Python 2 (httplib, filter() returning a list); the      *)
(* model follows Python 2 semantics.  RestartService reads                 *)
(* params.restart_limit / restart_threshold / restart_reset_period /       *)
(* containers_to_restart, i.e. it is handed the parsed argument namespace. *)
(***************************************************************************)
EXTENDS Integers, Sequences, FiniteSets, TLC

(* ------------------------------ configuration --------------------------- *)
\* --restart-limit: restarts allowed in one threshold period
restart_limit == 1
\* --restart-threshold, minutes
restart_threshold == 10
\* --restart-reset-period, minutes
restart_reset_period == 2
\* window (seconds) in which a die event counts as recent
die_max_age == 5
\* window (seconds) in which a stop/kill event counts as recent
stop_kill_max_age == 12
\* http.client.NO_CONTENT
HTTP_NO_CONTENT == 204

\* number of events one run saves in the histories
MaxEvents == 3
\* first clock reading of a run (seconds since the epoch, never 0)
StartTime == 1000
\* largest --restart-limit handed to is_restart_allowed on its own
MaxLimit == 3
\* number of frames the engine writes to the event stream of one run
MaxFrames == 2
\* bufsize: largest number of bytes one sock.recv returns
bufsize == 1024

\* containers seen on the stream; web-1 is a compose container, web-2 a swarm
\* service task, db-1 a compose container
Containers == {"web-1", "web-2", "db-1"}
\* args.containers_to_restart after convert_containers_to_restart
containers_to_restart == <<"^web-.*">>
\* pattern.match(container_name) for the compiled patterns of the configuration
pattern_match(pattern, container_name) ==
  CASE pattern = "^web-.*" -> container_name \in {"web-1", "web-2"}
    [] pattern = ".*" -> TRUE
    [] OTHER -> FALSE

\* parsed_json['id'] of a container's events
ContainerId(container_name) ==
  CASE container_name = "web-1" -> "id-web-1"
    [] container_name = "web-2" -> "id-web-2"
    [] OTHER -> "id-db-1"
\* the service attribute keys carried by a container's events
ServiceAttrs(container_name) ==
  IF container_name = "web-2" THEN {"com.docker.swarm.service.name"}
  ELSE {"com.docker.compose.service"}

NoStatus == "<no status>"
\* the status values put on the stream ("create" stands for any unwatched one)
Statuses == {"die", "stop", "kill", "start", "health_status: healthy",
             "health_status: unhealthy", "create", NoStatus}

\* clock readings: chosen so that two readings can be 5 s, 7 s, 12 s, exactly
\* the reset period, more than it, exactly the threshold, more than it apart
Instants == {StartTime,
             StartTime + die_max_age,
             StartTime + stop_kill_max_age,
             StartTime + die_max_age + restart_reset_period * 60,
             StartTime + die_max_age + restart_threshold * 60}

\* answers of the engine to a restart request
HttpStatuses == {HTTP_NO_CONTENT, 500}

NoError == "none"
NoEvent == [status |-> NoStatus, id |-> "", time |-> 0, name |-> "", attrs |-> {}]
NoCall == [done |-> FALSE, limit |-> 0, container_name |-> "", known |-> FALSE, ret |-> FALSE]

\* the decoded events the stream of a host can carry when the clock reads t
\* (the engine stamps an event with the second it is emitted in)
Events(hc, t) ==
  {[status |-> st, id |-> ContainerId(c), time |-> t, name |-> c, attrs |-> ServiceAttrs(c)] :
     st \in Statuses, c \in hc}

VARIABLES
  engine,                 \* the class that holds the policy state
  host_containers,        \* the containers of the docker host
  enable_restart,         \* args.restart_containers_on_die
  now,                    \* last reading of time.time()
  parsed_json,            \* the event decoded last
  captured_events,        \* dict container_name -> list of DockerEvent
  restarts,               \* dict container_name -> RestartData
  cached_container_names, \* {'restart': [...], 'do_not_restart': [...]}
  requests,               \* restart requests sent to the engine, with its answer
  mails,                  \* messages handed to smtplib
  notifications,          \* listener calls made by the broadcaster
  raised,                 \* exception that left the event loop, NoError while it runs
  call,                   \* a call of is_restart_allowed on its own: arguments, result
  frames,                 \* payloads (bytes) of the frames the engine writes to the socket
  unread,                 \* bytes of the response body that sock.recv has not returned yet
  pc,                     \* where watch is: "header" in read_http_header, "loop" after it
  payload,                \* watch's local payload: rest of the header read, then a frame's text
  buf,                    \* ''.join(buf) of watch: text received and not yet consumed
  callback_calls,         \* the arguments callback was called with, in order
  patterns_configured,    \* whether the configuration names containers-to-restart
  monotonic               \* seconds truly elapsed since the start, whatever time.time() reads

stream_vars == <<frames, unread, pc, payload, buf, callback_calls>>
vars == <<engine, host_containers, enable_restart, now, parsed_json, captured_events,
          restarts, cached_container_names, requests, mails, notifications, raised,
          call, frames, unread, pc, payload, buf, callback_calls, patterns_configured, monotonic>>

(* ------------------------------ helpers --------------------------------- *)
\* dict[key] = value
Put(d, k, v) == [x \in (DOMAIN d) \cup {k} |-> IF x = k THEN v ELSE d[x]]
\* list[-n:]
LastN(s, n) == IF Len(s) <= n THEN s ELSE SubSeq(s, Len(s) - n + 1, Len(s))
\* x in list
InList(x, s) == \E i \in 1..Len(s) : s[i] = x

\* the part of the state a handler reads and writes
State == [captured_events |-> captured_events, restarts |-> restarts,
          cached_container_names |-> cached_container_names,
          requests |-> requests, mails |-> mails,
          notifications |-> notifications, raised |-> NoError]

Raise(s, exc) == [s EXCEPT !.raised = exc]

DockerEvent(event_type, container_name, timestamp) ==
  [type |-> event_type, container_name |-> container_name, time |-> timestamp]

\* RestartData(container_name, timestamp=None): a falsy timestamp gives no occasion
RestartData(container_name, timestamp) ==
  [container_name |-> container_name, mail_sent |-> FALSE,
   occasions |-> IF timestamp # 0 THEN <<timestamp>> ELSE <<>>]

event_type_matches(ev, event_type) == ev.type = event_type
event_type_matches_one_of(ev, event_types) == ev.type \in event_types
event_max_age_in_seconds(ev, max_age_in_seconds, t) == t - ev.time <= max_age_in_seconds

\* mutant: the event is appended to the list of every container seen so far
save_docker_event_shared(s, event) ==
  [s EXCEPT !.captured_events =
     [x \in (DOMAIN @) \cup {event.container_name} |->
        Append(IF x \in DOMAIN @ THEN @[x] ELSE <<>>, event)]]

\* mutant: the list of the container is replaced by the new event
save_docker_event_keeps_last(s, event) ==
  [s EXCEPT !.captured_events = Put(@, event.container_name, <<event>>)]

save_docker_event(s, event) ==
  LET n == event.container_name
      old == IF n \in DOMAIN s.captured_events THEN s.captured_events[n] ELSE <<>>
  IN [s EXCEPT !.captured_events = Put(@, n, Append(old, event))]

save_restart_occasion(s, container_name, t) ==
  IF container_name \notin DOMAIN s.restarts
  THEN [s EXCEPT !.restarts = Put(@, container_name, RestartData(container_name, t))]
  ELSE [s EXCEPT !.restarts[container_name].occasions = Append(@, t)]

\* get_performed_restart_count creates the record of an unknown container
get_performed_restart_count(s, container_name) ==
  IF container_name \notin DOMAIN s.restarts
  THEN [s EXCEPT !.restarts = Put(@, container_name, RestartData(container_name, 0))]
  ELSE s

reset_restart_data(s, container_name) ==
  [s EXCEPT !.restarts = Put(@, container_name, RestartData(container_name, 0))]

\* send_mail: the message is handed to smtplib; an SMTP error propagates
send_mail(s, subject, container_name, smtp_ok) ==
  LET s1 == [s EXCEPT !.mails = Append(@, [subject |-> subject, container |-> container_name])]
  IN IF smtp_ok THEN s1 ELSE Raise(s1, "SMTPException")

\* mutant: the answers for names found on the two lists are swapped
check_container_is_restartable_swapped_hits(s, container_name) ==
  IF InList(container_name, s.cached_container_names.restart)
  THEN [ret |-> FALSE, s |-> s]
  ELSE IF InList(container_name, s.cached_container_names.do_not_restart)
  THEN [ret |-> TRUE, s |-> s]
  ELSE IF \E i \in 1..Len(containers_to_restart) :
            pattern_match(containers_to_restart[i], container_name)
  THEN [ret |-> TRUE,
        s |-> [s EXCEPT !.cached_container_names.restart = Append(@, container_name)]]
  ELSE [ret |-> FALSE,
        s |-> [s EXCEPT !.cached_container_names.do_not_restart = Append(@, container_name)]]

\* mutant: the name is put on the do_not_restart list before the patterns are tried
check_container_is_restartable_eager_deny(s, container_name) ==
  IF InList(container_name, s.cached_container_names.restart)
  THEN [ret |-> TRUE, s |-> s]
  ELSE IF InList(container_name, s.cached_container_names.do_not_restart)
  THEN [ret |-> FALSE, s |-> s]
  ELSE LET s1 == [s EXCEPT !.cached_container_names.do_not_restart = Append(@, container_name)] IN
       IF \E i \in 1..Len(containers_to_restart) :
            pattern_match(containers_to_restart[i], container_name)
       THEN [ret |-> TRUE,
             s |-> [s1 EXCEPT !.cached_container_names.restart = Append(@, container_name)]]
       ELSE [ret |-> FALSE, s |-> s1]

\* returns [ret, s].  Without configured patterns parse_args leaves the list
\* ['.*'] of str in args.containers_to_restart, and pattern.match raises
\* AttributeError in the first pass of the for loop.
check_container_is_restartable(s, container_name) ==
  IF InList(container_name, s.cached_container_names.restart)
  THEN [ret |-> TRUE, s |-> s]
  ELSE IF InList(container_name, s.cached_container_names.do_not_restart)
  THEN [ret |-> FALSE, s |-> s]
  ELSE IF ~patterns_configured
  THEN [ret |-> FALSE, s |-> Raise(s, "AttributeError")]
  ELSE IF \E i \in 1..Len(containers_to_restart) :
            pattern_match(containers_to_restart[i], container_name)
  THEN [ret |-> TRUE,
        s |-> [s EXCEPT !.cached_container_names.restart = Append(@, container_name)]]
  ELSE [ret |-> FALSE,
        s |-> [s EXCEPT !.cached_container_names.do_not_restart = Append(@, container_name)]]

\* is_restart_allowed for params.restart_limit = limit: False as soon as one of the
\* last limit occasions is older than the threshold, otherwise count < limit
restart_allowed_with_limit(occasions, t, limit) ==
  LET last_restarts == LastN(occasions, limit)
      restart_range_start == t - restart_threshold * 60
  IN IF \E i \in 1..Len(last_restarts) : last_restarts[i] < restart_range_start
     THEN FALSE
     ELSE Len(occasions) < limit

\* mutant: the count comparison is off by one
restart_allowed_off_by_one(occasions, t) ==
  LET last_restarts == LastN(occasions, restart_limit)
      restart_range_start == t - restart_threshold * 60
  IN IF \E i \in 1..Len(last_restarts) : last_restarts[i] < restart_range_start
     THEN FALSE
     ELSE Len(occasions) <= restart_limit

\* the value is_restart_allowed returns for a record's occasions at time t
restart_allowed_value(occasions, t) ==
  restart_allowed_with_limit(occasions, t, restart_limit)

\* returns [ret, s]
is_restart_allowed(s, container_name, t) ==
  LET s1 == get_performed_restart_count(s, container_name)
  IN [ret |-> restart_allowed_value(s1.restarts[container_name].occasions, t), s |-> s1]

\* mutant: the stop/kill window is used for die events as well
die_events_long_window(docker_events, t) ==
  SelectSeq(docker_events,
            LAMBDA e : event_type_matches(e, "die")
                       /\ event_max_age_in_seconds(e, stop_kill_max_age, t))

die_events_of(docker_events, t) ==
  SelectSeq(docker_events,
            LAMBDA e : event_type_matches(e, "die") /\ event_max_age_in_seconds(e, die_max_age, t))

\* mutant: the die window is used for stop/kill events as well
stop_or_kill_events_short_window(docker_events, t) ==
  SelectSeq(docker_events,
            LAMBDA e : event_type_matches_one_of(e, {"stop", "kill"})
                       /\ event_max_age_in_seconds(e, die_max_age, t))

stop_or_kill_events_of(docker_events, t) ==
  SelectSeq(docker_events,
            LAMBDA e : event_type_matches_one_of(e, {"stop", "kill"})
                       /\ event_max_age_in_seconds(e, stop_kill_max_age, t))

\* mutant: the limit-reached mail is sent without looking at mail_sent
DockerMon_check_restart_needed_no_latch(s, container_name, t, smtp_ok) ==
  IF container_name \notin DOMAIN s.captured_events
  THEN [ret |-> FALSE, s |-> Raise(s, "KeyError")]
  ELSE LET docker_events == s.captured_events[container_name] IN
    IF docker_events = <<>> THEN [ret |-> FALSE, s |-> s]
    ELSE IF die_events_of(docker_events, t) = <<>> THEN [ret |-> FALSE, s |-> s]
    ELSE IF stop_or_kill_events_of(docker_events, t) # <<>> THEN [ret |-> FALSE, s |-> s]
    ELSE LET a == is_restart_allowed(s, container_name, t) IN
      IF a.ret THEN [ret |-> TRUE, s |-> a.s]
      ELSE LET m == send_mail(a.s, "Maximum restart count is reached", container_name, smtp_ok) IN
        IF m.raised # NoError THEN [ret |-> FALSE, s |-> m]
        ELSE [ret |-> FALSE, s |-> [m EXCEPT !.restarts[container_name].mail_sent = TRUE]]

\* DockerMon.check_restart_needed; returns [ret, s]
DockerMon_check_restart_needed(s, container_name, t, smtp_ok) ==
  IF container_name \notin DOMAIN s.captured_events
  THEN [ret |-> FALSE, s |-> Raise(s, "KeyError")]
  ELSE LET docker_events == s.captured_events[container_name] IN
    IF docker_events = <<>> THEN [ret |-> FALSE, s |-> s]
    ELSE IF die_events_of(docker_events, t) = <<>> THEN [ret |-> FALSE, s |-> s]
    ELSE IF stop_or_kill_events_of(docker_events, t) # <<>> THEN [ret |-> FALSE, s |-> s]
    ELSE LET a == is_restart_allowed(s, container_name, t) IN
      IF a.ret THEN [ret |-> TRUE, s |-> a.s]
      ELSE IF a.s.restarts[container_name].mail_sent THEN [ret |-> FALSE, s |-> a.s]
      ELSE LET m == send_mail(a.s, "Maximum restart count is reached", container_name, smtp_ok) IN
        IF m.raised # NoError THEN [ret |-> FALSE, s |-> m]
        ELSE [ret |-> FALSE, s |-> [m EXCEPT !.restarts[container_name].mail_sent = TRUE]]

\* mutant: stop and kill events are not looked at
check_restart_needed_ignores_stop(s, container_name, t, smtp_ok) ==
  IF container_name \notin DOMAIN s.captured_events
  THEN [ret |-> FALSE, s |-> Raise(s, "KeyError")]
  ELSE LET docker_events == s.captured_events[container_name] IN
    IF docker_events = <<>> THEN [ret |-> FALSE, s |-> s]
    ELSE IF die_events_of(docker_events, t) = <<>> THEN [ret |-> FALSE, s |-> s]
    ELSE LET a == is_restart_allowed(s, container_name, t) IN
      IF a.ret THEN [ret |-> TRUE, s |-> a.s]
      ELSE [ret |-> FALSE, s |-> Raise(a.s, "TypeError")]

\* RestartService.check_restart_needed; returns [ret, s].  log_will_not_restart is
\* an instance method called on the class with the name as its only argument,
\* which raises TypeError before the mail is composed.
check_restart_needed(s, container_name, t, smtp_ok) ==
  IF container_name \notin DOMAIN s.captured_events
  THEN [ret |-> FALSE, s |-> Raise(s, "KeyError")]
  ELSE LET docker_events == s.captured_events[container_name] IN
    IF docker_events = <<>> THEN [ret |-> FALSE, s |-> s]
    ELSE IF die_events_of(docker_events, t) = <<>> THEN [ret |-> FALSE, s |-> s]
    ELSE IF stop_or_kill_events_of(docker_events, t) # <<>> THEN [ret |-> FALSE, s |-> s]
    ELSE LET a == is_restart_allowed(s, container_name, t) IN
      IF a.ret THEN [ret |-> TRUE, s |-> a.s]
      ELSE [ret |-> FALSE, s |-> Raise(a.s, "TypeError")]

\* DockerMon.maintain_container_restarts: reset when the last restart is older
\* than the reset period
DockerMon_maintain_container_restarts(s, container_name, t) ==
  IF container_name \notin DOMAIN s.restarts THEN s
  ELSE LET occ == s.restarts[container_name].occasions IN
    IF occ = <<>> THEN Raise(s, "IndexError")
    ELSE IF occ[Len(occ)] < t - restart_reset_period * 60
         THEN reset_restart_data(s, container_name)
         ELSE s

\* RestartService.maintain_container_restarts: reset when the last restart is
\* younger than the reset period
maintain_container_restarts(s, container_name, t) ==
  IF container_name \notin DOMAIN s.restarts THEN s
  ELSE LET occ == s.restarts[container_name].occasions IN
    IF occ = <<>> THEN Raise(s, "IndexError")
    ELSE IF t - occ[Len(occ)] < restart_reset_period * 60
         THEN reset_restart_data(s, container_name)
         ELSE s

\* mutant: the occasion is saved before the status is looked at
handle_restart_request_save_first(s, ev, t, status, smtp_ok) ==
  LET s1 == save_restart_occasion([s EXCEPT !.requests = Append(@, [id |-> ev.id, status |-> status])],
                                  ev.name, t) IN
  IF status = HTTP_NO_CONTENT
  THEN send_mail(s1, "Restarting container", ev.name, smtp_ok)
  ELSE Raise(s1, "DockermonError")

\* handle_restart_request / the with-block of restart_callback
handle_restart_request(s, ev, t, status, smtp_ok) ==
  LET s1 == [s EXCEPT !.requests = Append(@, [id |-> ev.id, status |-> status])] IN
  IF status = HTTP_NO_CONTENT
  THEN send_mail(save_restart_occasion(s1, ev.name, t), "Restarting container", ev.name, smtp_ok)
  ELSE Raise(s1, "DockermonError")

\* do_restart / restart_callback: the compose service name is read for the log
do_restart(s, ev, t, status, smtp_ok) ==
  IF "com.docker.compose.service" \notin ev.attrs
  THEN Raise(s, "KeyError")
  ELSE handle_restart_request(s, ev, t, status, smtp_ok)

\* DockerMon.event_types_to_watch
\* mutant: create is watched as well
event_types_to_watch_with_create == {"die", "stop", "kill", "start", "create"}

event_types_to_watch == {"die", "stop", "kill", "start"}

\* RestartService.handle_docker_event
handle_docker_event(s, ev, t, status, smtp_ok) ==
  IF ev.status = NoStatus THEN s
  ELSE IF ev.status \in event_types_to_watch
  THEN LET s1 == save_docker_event(s, DockerEvent(ev.status, ev.name, ev.time)) IN
       IF ev.status = "start" THEN maintain_container_restarts(s1, ev.name, t)
       ELSE LET r == check_container_is_restartable(s1, ev.name) IN
            IF ~r.ret THEN r.s
            ELSE LET n == check_restart_needed(r.s, ev.name, t, smtp_ok) IN
                 IF n.s.raised # NoError \/ ~n.ret THEN n.s
                 ELSE do_restart(n.s, ev, t, status, smtp_ok)
  ELSE IF ev.status = "health_status: unhealthy"
  THEN LET s1 == save_docker_event(s, DockerEvent(ev.status, ev.name, ev.time))
           r == check_container_is_restartable(s1, ev.name) IN
       IF ~r.ret THEN r.s
       ELSE LET n == check_restart_needed(r.s, ev.name, t, smtp_ok) IN
            IF n.s.raised # NoError \/ ~n.ret THEN n.s
            ELSE LET m == maintain_container_restarts(n.s, ev.name, t) IN
                 IF m.raised # NoError THEN m
                 ELSE do_restart(m, ev, t, status, smtp_ok)
  ELSE s

\* mutant: the restart logic runs whether or not restart_callback was passed
watch_event_ignores_switch(s, ev, t, status, smtp_ok) ==
  IF ev.status = NoStatus THEN s
  ELSE IF ev.status \in event_types_to_watch
  THEN LET s1 == save_docker_event(s, DockerEvent(ev.status, ev.name, ev.time)) IN
       IF ev.status = "start" THEN DockerMon_maintain_container_restarts(s1, ev.name, t)
       ELSE LET r == check_container_is_restartable(s1, ev.name) IN
            IF ~r.ret THEN r.s
            ELSE LET n == DockerMon_check_restart_needed(r.s, ev.name, t, smtp_ok) IN
                 IF n.s.raised # NoError \/ ~n.ret THEN n.s
                 ELSE do_restart(n.s, ev, t, status, smtp_ok)
  ELSE IF ev.status = "health_status: unhealthy"
  THEN LET r == check_container_is_restartable(s, ev.name) IN
       IF ~r.ret THEN r.s
       ELSE LET n == DockerMon_check_restart_needed(r.s, ev.name, t, smtp_ok) IN
            IF n.s.raised # NoError \/ ~n.ret THEN n.s
            ELSE LET s1 == save_docker_event(n.s, DockerEvent(ev.status, ev.name, ev.time))
                     m == DockerMon_maintain_container_restarts(s1, ev.name, t) IN
                 IF m.raised # NoError THEN m
                 ELSE do_restart(m, ev, t, status, smtp_ok)
  ELSE s

\* the body of DockerMon.watch's loop after callback(parsed_json)
watch_event(s, ev, t, status, smtp_ok) ==
  IF ~enable_restart THEN s
  ELSE IF ev.status = NoStatus THEN s
  ELSE IF ev.status \in event_types_to_watch
  THEN LET s1 == save_docker_event(s, DockerEvent(ev.status, ev.name, ev.time)) IN
       IF ev.status = "start" THEN DockerMon_maintain_container_restarts(s1, ev.name, t)
       ELSE LET r == check_container_is_restartable(s1, ev.name) IN
            IF ~r.ret THEN r.s
            ELSE LET n == DockerMon_check_restart_needed(r.s, ev.name, t, smtp_ok) IN
                 IF n.s.raised # NoError \/ ~n.ret THEN n.s
                 ELSE do_restart(n.s, ev, t, status, smtp_ok)
  ELSE IF ev.status = "health_status: unhealthy"
  THEN LET r == check_container_is_restartable(s, ev.name) IN
       IF ~r.ret THEN r.s
       ELSE LET n == DockerMon_check_restart_needed(r.s, ev.name, t, smtp_ok) IN
            IF n.s.raised # NoError \/ ~n.ret THEN n.s
            ELSE LET s1 == save_docker_event(n.s, DockerEvent(ev.status, ev.name, ev.time))
                     m == DockerMon_maintain_container_restarts(s1, ev.name, t) IN
                 IF m.raised # NoError THEN m
                 ELSE do_restart(m, ev, t, status, smtp_ok)
  ELSE s

\* EventBroadcaster.events_to_watch
events_to_watch == {"die", "stop", "kill", "start", "health_status: healthy",
                    "health_status: unhealthy"}
\* EventBroadcaster.listeners after the registrations
listeners == <<"listener-1", "listener-2">>

\* notify_container_*: one call per registered listener, in registration order
notify(s, kind, container_name) ==
  [s EXCEPT !.notifications =
     @ \o [i \in 1..Len(listeners) |->
            [kind |-> kind, container_name |-> container_name, listener |-> listeners[i]]]]

check_notify_required(s, container_name, t) ==
  LET docker_events == s.captured_events[container_name] IN
  IF docker_events = <<>> THEN FALSE
  ELSE IF die_events_of(docker_events, t) = <<>> THEN FALSE
  ELSE IF stop_or_kill_events_of(docker_events, t) # <<>> THEN FALSE
  ELSE TRUE

\* EventBroadcaster.broadcast_event
broadcast_event(s, ev, t) ==
  IF ev.status = NoStatus THEN s
  ELSE IF ev.status \in events_to_watch
  THEN LET s1 == save_docker_event(s, DockerEvent(ev.status, ev.name, ev.time)) IN
       IF ev.status = "start" THEN notify(s1, "container_started", ev.name)
       ELSE IF ev.status = "health_status: healthy"
       THEN notify(s1, "container_became_healthy", ev.name)
       ELSE IF ev.status = "health_status: unhealthy"
       THEN IF check_notify_required(s1, ev.name, t)
            THEN notify(s1, "container_became_unhealthy", ev.name)
            ELSE s1
       ELSE IF check_notify_required(s1, ev.name, t)
            THEN notify(s1, "container_dead", ev.name)
            ELSE s1
  ELSE s

(* ------------------------------ state machine --------------------------- *)
Init ==
  /\ patterns_configured = TRUE
  /\ monotonic = 0
  /\ engine \in {"DockerMon", "RestartService", "EventBroadcaster"}
  /\ host_containers \in {{c} : c \in Containers}
  /\ enable_restart \in BOOLEAN
  /\ (engine # "DockerMon" => enable_restart)
  /\ now = StartTime
  /\ parsed_json = NoEvent
  /\ captured_events = <<>>
  /\ restarts = <<>>
  /\ cached_container_names = [restart |-> <<>>, do_not_restart |-> <<>>]
  /\ requests = <<>>
  /\ mails = <<>>
  /\ notifications = <<>>
  /\ raised = NoError
  /\ call = NoCall
  /\ frames = <<>> /\ unread = <<>> /\ pc = "loop"
  /\ payload = <<>> /\ buf = <<>> /\ callback_calls = <<>>

\* number of events saved so far
Saved ==
  LET RECURSIVE Sum(_)
      Sum(S) == IF S = {} THEN 0
                ELSE LET c == CHOOSE x \in S : TRUE
                     IN Len(captured_events[c]) + Sum(S \ {c})
  IN Sum(DOMAIN captured_events)

Commit(s, ev, t) ==
  /\ now' = t
  /\ parsed_json' = ev
  /\ captured_events' = s.captured_events
  /\ restarts' = s.restarts
  /\ cached_container_names' = s.cached_container_names
  /\ requests' = s.requests
  /\ mails' = s.mails
  /\ notifications' = s.notifications
  /\ raised' = s.raised
  /\ UNCHANGED <<engine, host_containers, enable_restart, call, patterns_configured, monotonic>>
  /\ UNCHANGED stream_vars

\* DockerMon.watch decodes one event and runs the restart logic on it
Watch ==
  /\ engine = "DockerMon" /\ raised = NoError /\ Saved < MaxEvents
  /\ \E t \in Instants, status \in HttpStatuses, smtp_ok \in BOOLEAN :
       /\ t >= now
       /\ \E ev \in Events(host_containers, t) : Commit(watch_event(State, ev, t, status, smtp_ok), ev, t)

\* RestartService.handle_docker_event is called with one decoded event
HandleDockerEvent ==
  /\ engine = "RestartService" /\ raised = NoError /\ Saved < MaxEvents
  /\ \E t \in Instants, status \in HttpStatuses, smtp_ok \in BOOLEAN :
       /\ t >= now
       /\ \E ev \in Events(host_containers, t) : Commit(handle_docker_event(State, ev, t, status, smtp_ok), ev, t)

\* EventBroadcaster.broadcast_event is called with one decoded event
Broadcast ==
  /\ engine = "EventBroadcaster" /\ raised = NoError /\ Saved < MaxEvents
  /\ \E t \in Instants :
       /\ t >= now
       /\ \E ev \in Events(host_containers, t) : Commit(broadcast_event(State, ev, t), ev, t)

Next == Watch \/ HandleDockerEvent \/ Broadcast

Spec == Init /\ [][Next]_vars

(* ---------------- events whose stamp is not the clock reading ----------- *)
MaxStampedEvents == 2

\* the 'time' of an event is the engine's stamp, compared with the monitor's
\* time.time() when the event is processed: the stamp is the clock reading, or
\* lags it by more than the 12 seconds of the stop / kill window
Stamps(t) == {t, t - (stop_kill_max_age + 1)}

StampedEvents(hc, t) ==
  {[status |-> st, id |-> ContainerId(c), time |-> stamp, name |-> c, attrs |-> ServiceAttrs(c)] :
     st \in Statuses, c \in hc, stamp \in Stamps(t)}

WatchStamped ==
  /\ engine = "DockerMon" /\ raised = NoError /\ Saved < MaxStampedEvents
  /\ \E t \in Instants, status \in HttpStatuses, smtp_ok \in BOOLEAN :
       /\ t >= now
       /\ \E ev \in StampedEvents(host_containers, t) :
            Commit(watch_event(State, ev, t, status, smtp_ok), ev, t)

HandleDockerEventStamped ==
  /\ engine = "RestartService" /\ raised = NoError /\ Saved < MaxStampedEvents
  /\ \E t \in Instants, status \in HttpStatuses, smtp_ok \in BOOLEAN :
       /\ t >= now
       /\ \E ev \in StampedEvents(host_containers, t) :
            Commit(handle_docker_event(State, ev, t, status, smtp_ok), ev, t)

BroadcastStamped ==
  /\ engine = "EventBroadcaster" /\ raised = NoError /\ Saved < MaxStampedEvents
  /\ \E t \in Instants :
       /\ t >= now
       /\ \E ev \in StampedEvents(host_containers, t) :
            Commit(broadcast_event(State, ev, t), ev, t)

NextStamped == WatchStamped \/ HandleDockerEventStamped \/ BroadcastStamped

SpecStamped == Init /\ [][NextStamped]_vars

(* ---------------- the loop of watch with the --prog callback ------------- *)
MaxSinkEvents == 2

\* prog_callback(prog, msg): Popen(prog, stdin=PIPE), write, close.  Popen
\* raises OSError when the program cannot be started; the program itself is
\* not waited for.  Returns the state with the call on record.
prog_callback(s, calls, msg, sink_ok) ==
  [s |-> IF sink_ok THEN s ELSE Raise(s, "OSError"), calls |-> Append(calls, msg)]

InitSink ==
  /\ Init
  /\ engine = "DockerMon"

\* one pass of the loop of watch from json.loads on: callback(parsed_json),
\* then the restart block
WatchSink ==
  /\ engine = "DockerMon" /\ raised = NoError /\ Len(callback_calls) < MaxSinkEvents
  /\ \E t \in Instants, status \in HttpStatuses, smtp_ok \in BOOLEAN, sink_ok \in BOOLEAN :
       /\ t >= now
       /\ \E ev \in Events(host_containers, t) :
            LET c == prog_callback(State, callback_calls, ev, sink_ok)
                s == IF c.s.raised # NoError THEN c.s
                     ELSE watch_event(c.s, ev, t, status, smtp_ok) IN
            /\ callback_calls' = c.calls
            /\ now' = t
            /\ parsed_json' = ev
            /\ captured_events' = s.captured_events
            /\ restarts' = s.restarts
            /\ cached_container_names' = s.cached_container_names
            /\ requests' = s.requests
            /\ mails' = s.mails
            /\ notifications' = s.notifications
            /\ raised' = s.raised
  /\ UNCHANGED <<engine, host_containers, enable_restart, call, patterns_configured, monotonic>>
  /\ UNCHANGED <<frames, unread, pc, payload, buf>>

NextSink == WatchSink

SpecSink == InitSink /\ [][NextSink]_vars

(* ---------------- a wall clock that is set between two events ----------- *)
MaxJumpEvents == 2

\* seconds that truly pass between two events
Gaps == {0, die_max_age, die_max_age + restart_reset_period * 60}

\* the events the window decisions are taken for: the die that asks for a
\* restart and the start that may reset the counter
JumpEvents(hc, t) == {ev \in Events(hc, t) : ev.status \in {"die", "start"}}

InitJump ==
  /\ Init
  /\ engine \in {"DockerMon", "RestartService"}
  /\ enable_restart

\* the effects of one handler call whose time.time() reads t, d seconds after
\* the call before it
CommitJump(s, ev, t, d) ==
  /\ now' = t
  /\ monotonic' = monotonic + d
  /\ parsed_json' = ev
  /\ captured_events' = s.captured_events
  /\ restarts' = s.restarts
  /\ cached_container_names' = s.cached_container_names
  /\ requests' = s.requests
  /\ mails' = s.mails
  /\ notifications' = s.notifications
  /\ raised' = s.raised
  /\ UNCHANGED <<engine, host_containers, enable_restart, call, patterns_configured>>
  /\ UNCHANGED stream_vars

\* time.time() is the wall clock: its reading t need not be the last reading
\* plus the seconds elapsed (the clock was set, forward or backward); the
\* engine on the same host stamps the event with the same clock
WatchJump ==
  /\ engine = "DockerMon" /\ raised = NoError /\ Saved < MaxJumpEvents
  /\ \E t \in Instants, d \in Gaps, status \in HttpStatuses, smtp_ok \in BOOLEAN :
       \E ev \in JumpEvents(host_containers, t) :
          CommitJump(watch_event(State, ev, t, status, smtp_ok), ev, t, d)

HandleDockerEventJump ==
  /\ engine = "RestartService" /\ raised = NoError /\ Saved < MaxJumpEvents
  /\ \E t \in Instants, d \in Gaps, status \in HttpStatuses, smtp_ok \in BOOLEAN :
       \E ev \in JumpEvents(host_containers, t) :
          CommitJump(handle_docker_event(State, ev, t, status, smtp_ok), ev, t, d)

NextJump == WatchJump \/ HandleDockerEventJump

SpecJump == InitJump /\ [][NextJump]_vars

(* ---------------- a host that runs two containers ------------------------ *)
MaxPairEvents == 2

\* the events of the two containers that the handlers save or act on
PairEvents(hc, t) ==
  {ev \in Events(hc, t) : ev.status \in {"die", "stop", "start", "health_status: unhealthy"}}

InitPair ==
  /\ patterns_configured = TRUE
  /\ monotonic = 0
  /\ engine \in {"DockerMon", "RestartService", "EventBroadcaster"}
  /\ host_containers \in {{"web-1", "db-1"}, {"web-1", "web-2"}}
  /\ enable_restart = TRUE
  /\ now = StartTime
  /\ parsed_json = NoEvent
  /\ captured_events = <<>>
  /\ restarts = <<>>
  /\ cached_container_names = [restart |-> <<>>, do_not_restart |-> <<>>]
  /\ requests = <<>>
  /\ mails = <<>>
  /\ notifications = <<>>
  /\ raised = NoError
  /\ call = NoCall
  /\ frames = <<>> /\ unread = <<>> /\ pc = "loop"
  /\ payload = <<>> /\ buf = <<>> /\ callback_calls = <<>>

WatchPair ==
  /\ engine = "DockerMon" /\ raised = NoError /\ Saved < MaxPairEvents
  /\ \E t \in Instants, status \in HttpStatuses, smtp_ok \in BOOLEAN :
       /\ t >= now
       /\ \E ev \in PairEvents(host_containers, t) :
            Commit(watch_event(State, ev, t, status, smtp_ok), ev, t)

HandleDockerEventPair ==
  /\ engine = "RestartService" /\ raised = NoError /\ Saved < MaxPairEvents
  /\ \E t \in Instants, status \in HttpStatuses, smtp_ok \in BOOLEAN :
       /\ t >= now
       /\ \E ev \in PairEvents(host_containers, t) :
            Commit(handle_docker_event(State, ev, t, status, smtp_ok), ev, t)

BroadcastPair ==
  /\ engine = "EventBroadcaster" /\ raised = NoError /\ Saved < MaxPairEvents
  /\ \E t \in Instants :
       /\ t >= now
       /\ \E ev \in PairEvents(host_containers, t) :
            Commit(broadcast_event(State, ev, t), ev, t)

NextPair == WatchPair \/ HandleDockerEventPair \/ BroadcastPair

SpecPair == InitPair /\ [][NextPair]_vars

(* ---------------- a run without configured container patterns ----------- *)
\* parse_args with neither --containers-to-restart nor a containers-to-restart
\* list in the config file
InitEmptyConfig ==
  /\ patterns_configured = FALSE
  /\ monotonic = 0
  /\ engine \in {"DockerMon", "RestartService", "EventBroadcaster"}
  /\ host_containers \in {{c} : c \in Containers}
  /\ enable_restart \in BOOLEAN
  /\ (engine # "DockerMon" => enable_restart)
  /\ now = StartTime
  /\ parsed_json = NoEvent
  /\ captured_events = <<>>
  /\ restarts = <<>>
  /\ cached_container_names = [restart |-> <<>>, do_not_restart |-> <<>>]
  /\ requests = <<>>
  /\ mails = <<>>
  /\ notifications = <<>>
  /\ raised = NoError
  /\ call = NoCall
  /\ frames = <<>> /\ unread = <<>> /\ pc = "loop"
  /\ payload = <<>> /\ buf = <<>> /\ callback_calls = <<>>

SpecEmptyConfig == InitEmptyConfig /\ [][Next]_vars

(* ---------------- is_restart_allowed on the records it can meet ---------- *)
\* the occasions a record can hold under --restart-limit = limit: a restart is
\* appended only while is_restart_allowed holds, i.e. while fewer than limit
\* occasions are recorded and none of them is older than the threshold
RecordedOccasions(limit) ==
  {o \in UNION {[1..n -> Instants] : n \in 0..limit} :
     /\ \A i \in 1..(Len(o) - 1) : o[i] <= o[i + 1]
     /\ \A i \in 1..Len(o) : o[Len(o)] - o[i] <= restart_threshold * 60}

\* a policy object whose records were built by earlier restarts, about to be
\* asked whether web-1 may be restarted
InitIsRestartAllowed ==
  /\ patterns_configured = TRUE
  /\ monotonic = 0
  /\ engine \in {"DockerMon", "RestartService"}
  /\ host_containers = {"web-1"}
  /\ enable_restart = TRUE
  /\ parsed_json = NoEvent
  /\ captured_events = <<>>
  /\ cached_container_names = [restart |-> <<>>, do_not_restart |-> <<>>]
  /\ requests = <<>> /\ mails = <<>> /\ notifications = <<>>
  /\ raised = NoError
  /\ frames = <<>> /\ unread = <<>> /\ pc = "loop"
  /\ payload = <<>> /\ buf = <<>> /\ callback_calls = <<>>
  /\ \E limit \in 1..MaxLimit :
       /\ call = [NoCall EXCEPT !.limit = limit]
       /\ \/ restarts = <<>>
          \/ \E o \in RecordedOccasions(limit) :
               restarts = [c \in {"web-1"} |-> [RestartData(c, 0) EXCEPT !.occasions = o]]
  /\ now \in Instants
  /\ \A c \in DOMAIN restarts :
       \A i \in 1..Len(restarts[c].occasions) : restarts[c].occasions[i] <= now

\* self.is_restart_allowed(container_name)
IsRestartAllowed ==
  /\ ~call.done
  /\ \E c \in host_containers :
       LET s1 == get_performed_restart_count(State, c) IN
       /\ restarts' = s1.restarts
       /\ call' = [call EXCEPT !.done = TRUE, !.container_name = c,
                                !.known = (c \in DOMAIN restarts),
                                !.ret = restart_allowed_with_limit(s1.restarts[c].occasions,
                                                                   now, call.limit)]
  /\ UNCHANGED <<engine, host_containers, enable_restart, now, parsed_json, captured_events,
                 cached_container_names, requests, mails, notifications, raised,
                 patterns_configured, monotonic>>
  /\ UNCHANGED stream_vars

SpecIsRestartAllowed == InitIsRestartAllowed /\ [][IsRestartAllowed]_vars

(* ---------------- the chunked event stream read by DockerMon.watch ------- *)
\* Bytes and characters are one-character strings.  "L" and "T" are the lead and
\* the trail byte of a two-byte UTF-8 character, which decodes to "U"; every
\* other byte is ASCII and decodes to itself.
CR == "\r"
LF == "\n"
HexDigits == <<"0", "1", "2", "3", "4", "5", "6", "7", "8", "9",
               "a", "b", "c", "d", "e", "f">>
Whitespace == {CR, LF, " "}

\* the event objects the engine sends in this specification, as UTF-8 JSON: {},
\* {k} and {U} stand for events without a status key (a network or volume
\* event), whose text is ASCII or holds a two-byte character
Payloads == {<<"{", "}">>, <<"{", "k", "}">>, <<"{", "L", "T", "}">>}

\* '%x' % n
RECURSIVE Hex(_)
Hex(n) == IF n < 16 THEN <<HexDigits[n + 1]>> ELSE Hex(n \div 16) \o <<HexDigits[(n % 16) + 1]>>

\* one chunk of the chunked transfer coding: <hex-size>\r\n<payload>\r\n
Frame(bytes) == Hex(Len(bytes)) \o <<CR, LF>> \o bytes \o <<CR, LF>>

RECURSIVE Concat(_)
Concat(ss) == IF ss = <<>> THEN <<>> ELSE Head(ss) \o Concat(Tail(ss))

\* the response body: the frames one after the other
Body(fs) == Concat([i \in 1..Len(fs) |-> Frame(fs[i])])

\* bytes.decode('utf-8'): [ok, text]; a lead byte without its trail byte or a
\* trail byte without its lead byte raises UnicodeDecodeError
RECURSIVE utf8_decode(_)
utf8_decode(bytes) ==
  IF bytes = <<>> THEN [ok |-> TRUE, text |-> <<>>]
  ELSE IF Head(bytes) = "T" THEN [ok |-> FALSE, text |-> <<>>]
  ELSE IF Head(bytes) = "L"
  THEN IF Len(bytes) >= 2 /\ bytes[2] = "T"
       THEN LET r == utf8_decode(SubSeq(bytes, 3, Len(bytes)))
            IN [ok |-> r.ok, text |-> <<"U">> \o r.text]
       ELSE [ok |-> FALSE, text |-> <<>>]
  ELSE LET r == utf8_decode(Tail(bytes))
       IN [ok |-> r.ok, text |-> <<Head(bytes)>> \o r.text]

\* str.strip() as int() and json.loads apply it
RECURSIVE lstrip(_)
lstrip(text) ==
  IF text # <<>> /\ Head(text) \in Whitespace THEN lstrip(Tail(text)) ELSE text
RECURSIVE rstrip(_)
rstrip(text) ==
  IF text # <<>> /\ text[Len(text)] \in Whitespace
  THEN rstrip(SubSeq(text, 1, Len(text) - 1)) ELSE text
strip(text) == rstrip(lstrip(text))

HexValue(ch) == (CHOOSE i \in 1..16 : HexDigits[i] = ch) - 1
RECURSIVE HexNumber(_)
HexNumber(text) ==
  IF text = <<>> THEN 0
  ELSE 16 * HexNumber(SubSeq(text, 1, Len(text) - 1)) + HexValue(text[Len(text)])

\* int(text, 16): [ok, value]; surrounding whitespace is ignored, anything but
\* hexadecimal digits raises ValueError
int16(text) ==
  LET t == strip(text) IN
  IF t # <<>> /\ \A i \in 1..Len(t) : InList(t[i], HexDigits)
  THEN [ok |-> TRUE, value |-> HexNumber(t)]
  ELSE [ok |-> FALSE, value |-> 0]

\* json.loads(text): [ok, is_dict, value]; surrounding whitespace is ignored; an
\* object {...} gives a dict, a run of decimal digits a number, anything else
\* raises ValueError.  value is the text of the JSON value.
json_loads(text) ==
  LET t == strip(text) IN
  IF /\ Len(t) >= 2 /\ t[1] = "{" /\ t[Len(t)] = "}"
     /\ \A i \in 2..(Len(t) - 1) : t[i] \in {"k", "U"}
  THEN [ok |-> TRUE, is_dict |-> TRUE, value |-> t]
  ELSE IF /\ t # <<>>
          /\ \A i \in 1..Len(t) : \E d \in 1..10 : HexDigits[d] = t[i]
          /\ (Len(t) > 1 => t[1] # "0")
  THEN [ok |-> TRUE, is_dict |-> FALSE, value |-> t]
  ELSE [ok |-> FALSE, is_dict |-> FALSE, value |-> <<>>]

\* data.find('\r\n'), counted from 1; 0 when there is none
find_crlf(data) ==
  IF \E j \in 1..(Len(data) - 1) : data[j] = CR /\ data[j + 1] = LF
  THEN CHOOSE j \in 1..(Len(data) - 1) :
         /\ data[j] = CR /\ data[j + 1] = LF
         /\ \A k \in 1..(j - 1) : ~(data[k] = CR /\ data[k + 1] = LF)
  ELSE 0

\* the locals of watch that one pass of its loop reads and writes
StreamState == [payload |-> payload, buf |-> buf, callback_calls |-> callback_calls,
                raised |-> NoError]

\* mutant: an empty read is taken for "no data yet" and the loop goes on
watch_recv_ignores_close(st, chunk, restart_callback) ==
  IF chunk = <<>> THEN st
  ELSE LET d == utf8_decode(chunk) IN
  IF ~d.ok THEN Raise(st, "UnicodeDecodeError")
  ELSE LET data == st.buf \o d.text
           p == find_crlf(data) IN
  IF p = 0 THEN [st EXCEPT !.buf = data]
  ELSE LET size == int16(SubSeq(data, 1, p - 1)) IN
  IF ~size.ok THEN Raise([st EXCEPT !.buf = data], "ValueError")
  ELSE IF Len(data) < p + size.value + 3 THEN [st EXCEPT !.buf = data]
  ELSE LET text == SubSeq(data, p + 2, p + 1 + size.value)
           parsed == json_loads(text)
           st1 == [st EXCEPT !.buf = data, !.payload = text] IN
  IF ~parsed.ok THEN Raise(st1, "ValueError")
  ELSE LET st2 == [st1 EXCEPT !.callback_calls = Append(@, parsed.value)] IN
  IF restart_callback /\ ~parsed.is_dict THEN Raise(st2, "TypeError")
  ELSE [st2 EXCEPT !.buf = SubSeq(data, p + size.value + 4, Len(data))]

\* one pass of the loop of DockerMon.watch with chunk = sock.recv(bufsize); the
\* events of this specification carry no status key, so the restart block
\* only evaluates "status" in parsed_json
watch_recv(st, chunk, restart_callback) ==
  IF chunk = <<>> THEN Raise(st, "EOFError")
  ELSE LET d == utf8_decode(chunk) IN
  IF ~d.ok THEN Raise(st, "UnicodeDecodeError")
  ELSE LET data == st.buf \o d.text
           p == find_crlf(data) IN
  IF p = 0 THEN [st EXCEPT !.buf = data]
  ELSE LET size == int16(SubSeq(data, 1, p - 1)) IN
  IF ~size.ok THEN Raise([st EXCEPT !.buf = data], "ValueError")
  ELSE IF Len(data) < p + size.value + 3 THEN [st EXCEPT !.buf = data]
  ELSE LET text == SubSeq(data, p + 2, p + 1 + size.value)
           parsed == json_loads(text)
           st1 == [st EXCEPT !.buf = data, !.payload = text] IN
  IF ~parsed.ok THEN Raise(st1, "ValueError")
  ELSE LET st2 == [st1 EXCEPT !.callback_calls = Append(@, parsed.value)] IN
  IF restart_callback /\ ~parsed.is_dict THEN Raise(st2, "TypeError")
  ELSE [st2 EXCEPT !.buf = SubSeq(data, p + size.value + 4, Len(data))]

\* the length of a recv: at least one byte, at most bufsize
RecvLengths(n) == 1..(IF n < bufsize THEN n ELSE bufsize)

\* the response to GET /events: headers, then the frames of at most MaxFrames events
InitFrames ==
  /\ patterns_configured = TRUE
  /\ monotonic = 0
  /\ engine = "DockerMon"
  /\ host_containers = {"web-1"}
  /\ enable_restart \in BOOLEAN
  /\ now = StartTime
  /\ parsed_json = NoEvent
  /\ captured_events = <<>>
  /\ restarts = <<>>
  /\ cached_container_names = [restart |-> <<>>, do_not_restart |-> <<>>]
  /\ requests = <<>> /\ mails = <<>> /\ notifications = <<>>
  /\ raised = NoError
  /\ call = NoCall
  /\ frames \in UNION {[1..n -> Payloads] : n \in 1..MaxFrames}
  /\ unread = Body(frames)
  /\ pc = "header"
  /\ payload = <<>> /\ buf = <<>> /\ callback_calls = <<>>

policy_vars == <<engine, host_containers, enable_restart, now, parsed_json, captured_events,
                 restarts, cached_container_names, requests, mails, notifications, call,
                 patterns_configured, monotonic>>

\* read_http_header: the recv that completes the headers also returns the first
\* k bytes of the body, which become payload and the first element of buf
ReadHttpHeader ==
  /\ pc = "header" /\ raised = NoError
  /\ \E k \in {0} \cup RecvLengths(Len(unread)) :
       LET d == utf8_decode(SubSeq(unread, 1, k)) IN
       /\ unread' = SubSeq(unread, k + 1, Len(unread))
       /\ IF d.ok
          THEN /\ payload' = d.text /\ buf' = d.text
               /\ pc' = "loop" /\ raised' = NoError
          ELSE /\ raised' = "UnicodeDecodeError"
               /\ UNCHANGED <<payload, buf, pc>>
  /\ UNCHANGED <<frames, callback_calls>>
  /\ UNCHANGED policy_vars

\* one pass of the loop: recv returns the next k bytes, or nothing once the
\* engine has closed the connection after the last frame
Recv ==
  /\ pc = "loop" /\ raised = NoError
  /\ \E k \in (IF unread = <<>> THEN {0} ELSE RecvLengths(Len(unread))) :
       LET st == watch_recv(StreamState, SubSeq(unread, 1, k), enable_restart) IN
       /\ unread' = SubSeq(unread, k + 1, Len(unread))
       /\ payload' = st.payload
       /\ buf' = st.buf
       /\ callback_calls' = st.callback_calls
       /\ raised' = st.raised
  /\ UNCHANGED <<frames, pc>>
  /\ UNCHANGED policy_vars

NextFrames == ReadHttpHeader \/ Recv

SpecFrames == InitFrames /\ [][NextFrames]_vars

(* ---------------- the run of watch to the end of the process ------------- *)
\* what the engine may put into a frame: an event object, a payload cut short
\* ("{k", not valid JSON) and the empty payload of the last chunk "0\r\n\r\n"
RunPayloads == {<<"{", "}">>, <<"{", "k">>, <<>>}

InitRun ==
  /\ patterns_configured = TRUE
  /\ monotonic = 0
  /\ engine = "DockerMon"
  /\ host_containers = {"web-1"}
  /\ enable_restart \in BOOLEAN
  /\ now = StartTime
  /\ parsed_json = NoEvent
  /\ captured_events = <<>>
  /\ restarts = <<>>
  /\ cached_container_names = [restart |-> <<>>, do_not_restart |-> <<>>]
  /\ requests = <<>> /\ mails = <<>> /\ notifications = <<>>
  /\ raised = NoError
  /\ call = NoCall
  /\ frames \in UNION {[1..n -> RunPayloads] : n \in 1..MaxFrames}
  /\ unread = Body(frames)
  /\ pc = "header"
  /\ payload = <<>> /\ buf = <<>> /\ callback_calls = <<>>

\* the user presses Ctrl-C while watch runs: KeyboardInterrupt is raised in it
Interrupt ==
  /\ pc \in {"header", "loop"} /\ raised = NoError
  /\ raised' = "KeyboardInterrupt"
  /\ UNCHANGED stream_vars
  /\ UNCHANGED policy_vars

\* an exception leaves the block of "with closing(sock)": sock.close()
CloseSocket ==
  /\ pc \in {"header", "loop"} /\ raised # NoError
  /\ pc' = "closed"
  /\ UNCHANGED <<frames, unread, payload, buf, callback_calls, raised>>
  /\ UNCHANGED policy_vars

\* the exception reaches __main__: KeyboardInterrupt and EOFError are passed
\* over and the script ends (status 0); any other exception is uncaught and the
\* interpreter ends with a traceback (status 1)
Exit ==
  /\ pc = "closed"
  /\ pc' = IF raised \in {"KeyboardInterrupt", "EOFError"} THEN "exit 0" ELSE "exit 1"
  /\ UNCHANGED <<frames, unread, payload, buf, callback_calls, raised>>
  /\ UNCHANGED policy_vars

NextRun == ReadHttpHeader \/ Recv \/ Interrupt \/ CloseSocket \/ Exit

SpecRun == InitRun /\ [][NextRun]_vars

\* the pass of the loop whose recv finds the connection closed by the peer
RecvAtClose == unread = <<>> /\ Recv

\* a recv on a socket the peer has closed returns, and the interpreter unwinds
\* a raised exception to the end
SpecRunFair == SpecRun /\ WF_vars(RecvAtClose) /\ WF_vars(CloseSocket) /\ WF_vars(Exit)

(* ---------------- read_http_header, recv by recv ------------------------- *)
\* the response header of the engine: a status line and one field, each ended
\* by \r\n, and the empty line
ResponseHeader == <<"2", "0", "0", CR, LF, "k", CR, LF, CR, LF>>

\* data.find('\r\n\r\n'), counted from 1; 0 when there is none
find_hdr_end(data) ==
  IF \E j \in 1..(Len(data) - 3) :
       data[j] = CR /\ data[j + 1] = LF /\ data[j + 2] = CR /\ data[j + 3] = LF
  THEN CHOOSE j \in 1..(Len(data) - 3) :
         /\ data[j] = CR /\ data[j + 1] = LF /\ data[j + 2] = CR /\ data[j + 3] = LF
         /\ \A k \in 1..(j - 1) :
              ~(data[k] = CR /\ data[k + 1] = LF /\ data[k + 2] = CR /\ data[k + 3] = LF)
  ELSE 0

\* the peer writes the header and one frame, or a beginning of them, and then
\* closes the connection; unread is what it wrote
InitHeader ==
  /\ patterns_configured = TRUE
  /\ monotonic = 0
  /\ engine = "DockerMon"
  /\ host_containers = {"web-1"}
  /\ enable_restart \in BOOLEAN
  /\ now = StartTime
  /\ parsed_json = NoEvent
  /\ captured_events = <<>>
  /\ restarts = <<>>
  /\ cached_container_names = [restart |-> <<>>, do_not_restart |-> <<>>]
  /\ requests = <<>> /\ mails = <<>> /\ notifications = <<>>
  /\ raised = NoError
  /\ call = NoCall
  /\ frames \in [1..1 -> Payloads]
  /\ \E n \in 0..Len(ResponseHeader \o Body(frames)) :
       unread = SubSeq(ResponseHeader \o Body(frames), 1, n)
  /\ pc = "header"
  /\ payload = <<>> /\ buf = <<>> /\ callback_calls = <<>>

\* one pass of the loop of read_http_header: recv returns the next k bytes, or
\* nothing when the peer has closed; buf is ''.join(buf) of read_http_header
\* until the end of the header is found, then watch's buf = [payload]
HeaderRecv ==
  /\ pc = "header" /\ raised = NoError
  /\ \E k \in (IF unread = <<>> THEN {0} ELSE RecvLengths(Len(unread))) :
       LET d == utf8_decode(SubSeq(unread, 1, k))
           data == buf \o d.text
           i == find_hdr_end(data) IN
       /\ unread' = SubSeq(unread, k + 1, Len(unread))
       /\ IF ~d.ok
          THEN /\ raised' = "UnicodeDecodeError"
               /\ UNCHANGED <<payload, buf, pc>>
          ELSE IF i = 0
          THEN /\ buf' = data
               /\ UNCHANGED <<payload, pc, raised>>
          ELSE /\ payload' = SubSeq(data, i + 4, Len(data))
               /\ buf' = SubSeq(data, i + 4, Len(data))
               /\ pc' = "loop"
               /\ UNCHANGED raised
  /\ UNCHANGED <<frames, callback_calls>>
  /\ UNCHANGED policy_vars

NextHeader == HeaderRecv \/ Recv

SpecHeader == InitHeader /\ [][NextHeader]_vars

\* a recv returns when the peer has written or closed
SpecHeaderFair == SpecHeader /\ WF_vars(HeaderRecv) /\ WF_vars(RecvAtClose)

(* ------------------------------ properties ------------------------------ *)
Occ(rs, c) == IF c \in DOMAIN rs THEN rs[c].occasions ELSE <<>>
MailSent(rs, c) == c \in DOMAIN rs /\ rs[c].mail_sent
History(evs, c) == IF c \in DOMAIN evs THEN evs[c] ELSE <<>>
CountMails(ms, subject, c) ==
  Cardinality({i \in 1..Len(ms) : ms[i].subject = subject /\ ms[i].container = c})
LimitMails(ms, c) == CountMails(ms, "Maximum restart count is reached", c)
SuccessMails(ms, c) == CountMails(ms, "Restarting container", c)
CountNotes(ns, kind, c) ==
  Cardinality({i \in 1..Len(ns) : ns[i].kind = kind /\ ns[i].container_name = c})
CountType(h, type) == Cardinality({i \in 1..Len(h) : h[i].type = type})
\* the history holds a stop or kill stamped within the 12 seconds before t
RecentStopOrKill(evs, c, t) ==
  \E i \in 1..Len(History(evs, c)) :
     /\ History(evs, c)[i].type \in {"stop", "kill"}
     /\ t - History(evs, c)[i].time <= 12
MatchesSomePattern(c) ==
  \E i \in 1..Len(containers_to_restart) : pattern_match(containers_to_restart[i], c)
PolicyEngine == engine \in {"DockerMon", "RestartService"}
\* o2 is o1 or a prefix of it
NothingAppended(o1, o2) ==
  Len(o2) <= Len(o1) /\ \A i \in 1..Len(o2) : o2[i] = o1[i]
\* this step sent one more restart request
Requested == Len(requests') = Len(requests) + 1

\* C1: a die processed while the container's history holds a stop or kill
\* stamped within the last 12 seconds issues no restart request, appends nothing
\* to the container's occasions, sends no mail and (broadcaster) delivers no
\* container_dead notification.
C1_OperatorStopNeverRestarts ==
  [][(parsed_json'.status = "die"
        /\ RecentStopOrKill(captured_events', parsed_json'.name, now'))
       => /\ requests' = requests
          /\ mails' = mails
          /\ Occ(restarts', parsed_json'.name) = Occ(restarts, parsed_json'.name)
          /\ CountNotes(notifications', "container_dead", parsed_json'.name)
               = CountNotes(notifications, "container_dead", parsed_json'.name)]_vars

\* an eligible container was stopped 12 seconds ago, its die has been processed
\* and nothing was requested or mailed
C1_Witness ==
  /\ PolicyEngine /\ enable_restart
  /\ parsed_json.status = "die"
  /\ InList(parsed_json.name, cached_container_names.restart)
  /\ \E i \in 1..Len(History(captured_events, parsed_json.name)) :
        /\ captured_events[parsed_json.name][i].type = "stop"
        /\ now - captured_events[parsed_json.name][i].time = 12
  /\ History(captured_events, parsed_json.name)[Len(History(captured_events, parsed_json.name))]
       = DockerEvent("die", parsed_json.name, now)
  /\ requests = <<>> /\ mails = <<>>

\* number of recorded occasions of c that lie within the last T minutes
InWindow(rs, c, t) ==
  Cardinality({i \in 1..Len(Occ(rs, c)) : Occ(rs, c)[i] >= t - restart_threshold * 60})

\* C2: in every state at most restart_limit occasions of a container lie within
\* the last restart_threshold minutes, and no restart request is sent while
\* restart_limit occasions lie within them.
C2_RateLimit ==
  /\ [](\A c \in Containers : InWindow(restarts, c, now) <= restart_limit)
  /\ [][Requested => InWindow(restarts, parsed_json'.name, now') < restart_limit]_vars

\* a container holds restart_limit occasions inside the window and a further
\* die for it was refused
C2_Witness ==
  \E c \in Containers :
     /\ InWindow(restarts, c, now) = restart_limit
     /\ Len(requests) = restart_limit
     /\ CountType(History(captured_events, c), "die") > restart_limit
     /\ parsed_json.status = "die" /\ parsed_json.name = c

\* h is die, start, die, start, ...: every start follows the preceding die within
\* the reset period and everything lies in one threshold window ending at t
CrashLoop(h, t) ==
  /\ h # <<>>
  /\ \A i \in 1..Len(h) : h[i].type = (IF i % 2 = 1 THEN "die" ELSE "start")
  /\ \A i \in 1..Len(h) : (i % 2 = 0) => h[i].time - h[i-1].time < restart_reset_period * 60
  /\ t - h[1].time <= restart_threshold * 60
C4_ResetRule ==
  [][(/\ PolicyEngine
      /\ parsed_json'.status \in {"start", "health_status: healthy"}
      /\ Occ(restarts, parsed_json'.name) # <<>>)
       => LET c == parsed_json'.name
              last_restart == Occ(restarts, c)[Len(Occ(restarts, c))]
          IN /\ (now' - last_restart > restart_reset_period * 60
                   => Occ(restarts', c) = <<>> /\ ~MailSent(restarts', c))
             /\ (now' - last_restart < restart_reset_period * 60
                   => restarts'[c] = restarts[c])]_vars

\* C5: a health_status: healthy that arrives more than the reset period after
\* the last restart of an exhausted container (limit reached, mail latched)
\* clears its occasions and its mail_sent.
C5_RecoveryViaHealthy ==
  [][(/\ PolicyEngine
      /\ parsed_json'.status = "health_status: healthy"
      /\ Len(Occ(restarts, parsed_json'.name)) >= restart_limit
      /\ MailSent(restarts, parsed_json'.name)
      /\ now' - Occ(restarts, parsed_json'.name)[Len(Occ(restarts, parsed_json'.name))]
           > restart_reset_period * 60)
       => /\ Occ(restarts', parsed_json'.name) = <<>>
          /\ ~MailSent(restarts', parsed_json'.name)]_vars

\* C6: a limit-reached mail is sent only while mail_sent is false and latches it;
\* mail_sent becomes true only with such a mail, and becomes false again only
\* when the whole record is replaced by an empty one.
C6_MailLatch ==
  [][\A c \in Containers :
       /\ (LimitMails(mails', c) # LimitMails(mails, c)
             => /\ LimitMails(mails', c) = LimitMails(mails, c) + 1
                /\ ~MailSent(restarts, c)
                /\ (raised' = NoError => MailSent(restarts', c)))
       /\ (~MailSent(restarts, c) /\ MailSent(restarts', c)
             => LimitMails(mails', c) = LimitMails(mails, c) + 1)
       /\ (MailSent(restarts, c) /\ ~MailSent(restarts', c)
             => restarts'[c] = RestartData(c, 0))]_vars

\* the latch is set, one limit-reached mail went out, and a further die was
\* processed after it without a second mail
C6_Witness ==
  \E c \in Containers :
     /\ MailSent(restarts, c)
     /\ LimitMails(mails, c) = 1
     /\ parsed_json.status = "die" /\ parsed_json.name = c
     /\ CountType(History(captured_events, c), "die") >= restart_limit + 2
     /\ raised = NoError

\* C7: a warranted die of an eligible container within its limit, restarts
\* enabled, sends exactly one restart request for the event's id; answered 204,
\* the current time is appended to the occasions and one success mail is sent.
C7_HappyPath ==
  [][(/\ PolicyEngine /\ enable_restart
      /\ parsed_json'.status = "die"
      /\ MatchesSomePattern(parsed_json'.name)
      /\ ~RecentStopOrKill(captured_events', parsed_json'.name, now')
      /\ Len(Occ(restarts, parsed_json'.name)) < restart_limit
      /\ InWindow(restarts, parsed_json'.name, now') = Len(Occ(restarts, parsed_json'.name)))
       => LET c == parsed_json'.name IN
          /\ Requested
          /\ requests'[Len(requests')].id = parsed_json'.id
          /\ (requests'[Len(requests')].status = HTTP_NO_CONTENT
                => /\ Occ(restarts', c) = Append(Occ(restarts, c), now')
                   /\ SuccessMails(mails', c) = SuccessMails(mails, c) + 1
                   /\ Len(mails') = Len(mails) + 1)]_vars

\* C8: a restart request answered with another status than 204 appends nothing
\* to the container's occasions, leaves mail_sent as it was and sends no mail.
C8_FailedRestart ==
  [][(Requested /\ requests'[Len(requests')].status # HTTP_NO_CONTENT)
       => LET c == parsed_json'.name IN
          /\ NothingAppended(Occ(restarts, c), Occ(restarts', c))
          /\ MailSent(restarts', c) = MailSent(restarts, c)
          /\ mails' = mails]_vars

\* a restart request was answered 500: no occasion, no mail
C8_Witness ==
  /\ requests # <<>>
  /\ requests[Len(requests)].status = 500
  /\ requests[Len(requests)].id = parsed_json.id
  /\ raised = "DockermonError"
  /\ Occ(restarts, parsed_json.name) = <<>>
  /\ mails = <<>>

\* C9: a die or unhealthy event of a container that matches no pattern sends no
\* restart request and no mail, leaves the container without occasions and
\* records its name in the denied list.
C9_EligibilityFilter ==
  [][(/\ PolicyEngine
      /\ parsed_json'.status \in {"die", "health_status: unhealthy"}
      /\ ~MatchesSomePattern(parsed_json'.name))
       => /\ requests' = requests
          /\ mails' = mails
          /\ Occ(restarts', parsed_json'.name) = <<>>
          /\ InList(parsed_json'.name, cached_container_names'.do_not_restart)]_vars

\* the value the specification gives restart_allowed
restart_allowed_claimed(occasions, t) ==
  \/ Len(occasions) < restart_limit
  \/ \E i \in 1..Len(LastN(occasions, restart_limit)) :
        LastN(occasions, restart_limit)[i] < t - restart_threshold * 60

\* C10: is_restart_allowed is true iff fewer than restart_limit restarts are
\* recorded or one of the last restart_limit occasions is older than the
\* threshold.
C10_RestartAllowed ==
  \A c \in DOMAIN restarts :
     restart_allowed_value(restarts[c].occasions, now)
       = restart_allowed_claimed(restarts[c].occasions, now)

\* C11: is_restart_allowed returns True for a container without a restart
\* record and for a container whose record holds fewer than restart_limit
\* occasions, whatever their age.
C11_RestartAllowedEdgeCases ==
  (call.done /\ Len(restarts[call.container_name].occasions) < call.limit) => call.ret

\* C12: while restart_containers_on_die is off no restart request is sent and
\* no container has a recorded restart occasion.
C12_MasterSwitchOff ==
  ~enable_restart => (requests = <<>> /\ \A c \in Containers : Occ(restarts, c) = <<>>)

\* the switch is off and the die of an eligible compose container was processed
\* after earlier events
C12_Witness ==
  /\ ~enable_restart
  /\ parsed_json.status = "die"
  /\ MatchesSomePattern(parsed_json.name)
  /\ "com.docker.compose.service" \in parsed_json.attrs
  /\ now > StartTime
  /\ requests = <<>>

\* C13: with restart_containers_on_die off the policy still evaluates the event:
\* the die of an eligible container, first event of the run (so warranted and
\* within the limit), is looked up in the eligibility cache and answered with
\* exactly one mail about that container.
C13_MasterSwitchOffNotifies ==
  [][(/\ PolicyEngine /\ ~enable_restart
      /\ parsed_json = NoEvent
      /\ parsed_json'.status = "die"
      /\ MatchesSomePattern(parsed_json'.name))
       => /\ Len(mails') = Len(mails) + 1
          /\ mails'[Len(mails')].container = parsed_json'.name
          /\ InList(parsed_json'.name, cached_container_names'.restart)]_vars

\* C14: a die or unhealthy event broadcast while the container's history holds a
\* stop or kill of the last 12 seconds is delivered as exactly one
\* container_stopped_by_hand call per registered listener, in registration
\* order, and as no container_dead or container_became_unhealthy call.
C14_StoppedByHand ==
  [][(/\ engine = "EventBroadcaster"
      /\ parsed_json'.status \in {"die", "health_status: unhealthy"}
      /\ RecentStopOrKill(captured_events', parsed_json'.name, now'))
       => notifications' =
            notifications \o [i \in 1..Len(listeners) |->
                               [kind |-> "container_stopped_by_hand",
                                container_name |-> parsed_json'.name,
                                listener |-> listeners[i]]]]_vars

\* the history holds a die stamped within the 5 seconds before t
RecentDie(evs, c, t) ==
  \E i \in 1..Len(History(evs, c)) :
     /\ History(evs, c)[i].type = "die"
     /\ t - History(evs, c)[i].time <= 5

Exhausted(rs, c, t) ==
  /\ Len(Occ(rs, c)) >= restart_limit
  /\ InWindow(rs, c, t) = Len(Occ(rs, c))

\* C16: for an eligible container whose limit is exhausted and whose mail_sent
\* is false, a warranted die sends the limit-reached mail and sets mail_sent,
\* and a health_status: unhealthy sends no mail and leaves mail_sent false.
C16_LimitMailOnDeadOnly ==
  [][(/\ PolicyEngine /\ enable_restart
      /\ MatchesSomePattern(parsed_json'.name)
      /\ Exhausted(restarts, parsed_json'.name, now')
      /\ ~MailSent(restarts, parsed_json'.name))
       => LET c == parsed_json'.name IN
          /\ (parsed_json'.status = "die" /\ ~RecentStopOrKill(captured_events', c, now')
                => /\ LimitMails(mails', c) = LimitMails(mails, c) + 1
                   /\ (raised' \in {NoError, "SMTPException"}))
          /\ (parsed_json'.status = "die" /\ ~RecentStopOrKill(captured_events', c, now')
                /\ raised' = NoError
                => MailSent(restarts', c))
          /\ (parsed_json'.status = "health_status: unhealthy"
                => mails' = mails /\ ~MailSent(restarts', c))]_vars

\* watch run on the same body with read_http_header returning no body bytes
\* and every recv returning exactly one frame
RECURSIVE feed(_, _, _)
feed(st, chunks, restart_callback) ==
  IF chunks = <<>> \/ st.raised # NoError THEN st
  ELSE feed(watch_recv(st, Head(chunks), restart_callback), Tail(chunks), restart_callback)
FramePerRecv(fs, restart_callback) ==
  feed([payload |-> <<>>, buf |-> <<>>, callback_calls |-> <<>>, raised |-> NoError],
       [i \in 1..Len(fs) |-> Frame(fs[i])], restart_callback)

\* C17: whatever the split of the body into reads, once the whole body has been
\* received the callback has been called with the same sequence of events as
\* on the split of the same body into one read per frame.
C17_SplitIndependent ==
  (pc = "loop" /\ unread = <<>>)
    => callback_calls = FramePerRecv(frames, enable_restart).callback_calls

\* number of body bytes up to the end of the n-th frame
RECURSIVE FrameEnd(_, _)
FrameEnd(fs, n) == IF n = 0 THEN 0 ELSE FrameEnd(fs, n - 1) + Len(Frame(fs[n]))

\* C18: the n-th call of the callback happens only when the n-th frame has been
\* received to its last byte, the text decoded for it is exactly the frame's
\* payload bytes, and the bytes received after the frame are what is kept in buf.
C18_CompleteFramesOnly ==
  [][callback_calls' # callback_calls
       => LET n == Len(callback_calls')
              received == Len(Body(frames)) - Len(unread')
          IN /\ n = Len(callback_calls) + 1
             /\ n <= Len(frames)
             /\ received >= FrameEnd(frames, n)
             /\ payload' = utf8_decode(frames[n]).text
             /\ callback_calls'[n] = json_loads(utf8_decode(frames[n]).text).value
             /\ (raised' = NoError
                   => buf' = utf8_decode(SubSeq(Body(frames), FrameEnd(frames, n) + 1,
                                                received)).text)]_vars

\* the i-th event of history h is a warranted die or unhealthy event: when it was
\* processed (at the second it is stamped with) the history up to it held a die
\* of the last 5 seconds and no stop or kill of the last 12 seconds
Warranted(h, i) ==
  /\ h[i].type \in {"die", "health_status: unhealthy"}
  /\ \E j \in 1..i : h[j].type = "die" /\ h[i].time - h[j].time <= 5
  /\ ~\E j \in 1..i : h[j].type \in {"stop", "kill"} /\ h[i].time - h[j].time <= 12
WarrantedCount(h) == Cardinality({i \in 1..Len(h) : Warranted(h, i)})

\* C19: a container never has more recorded restart occasions than warranted
\* die / unhealthy events were processed for it; the warranted events are the
\* ones the broadcaster delivers as container_dead or container_became_unhealthy
\* (once per listener).
C19_RestartsBounded ==
  \A c \in Containers :
     /\ Len(Occ(restarts, c)) <= WarrantedCount(History(captured_events, c))
     /\ (engine = "EventBroadcaster"
           => CountNotes(notifications, "container_dead", c)
                + CountNotes(notifications, "container_became_unhealthy", c)
              = Len(listeners) * WarrantedCount(History(captured_events, c)))

\* a container was restarted for its one warranted die, and an earlier die of it
\* (stopped by hand) was not warranted
C19_Witness ==
  \E c \in Containers :
     /\ PolicyEngine
     /\ Len(Occ(restarts, c)) >= 1
     /\ Len(Occ(restarts, c)) = WarrantedCount(History(captured_events, c))
     /\ CountType(History(captured_events, c), "die") > WarrantedCount(History(captured_events, c))

\* C20: no container name is on both the restart and the do_not_restart list
\* of cached_container_names.
C20_CacheDisjoint ==
  \A c \in Containers :
     ~(InList(c, cached_container_names.restart)
         /\ InList(c, cached_container_names.do_not_restart))

\* a name was looked up for two die events and is cached on exactly one list
C20_Witness ==
  \E c \in Containers :
     /\ CountType(History(captured_events, c), "die") >= 2
     /\ (InList(c, cached_container_names.restart)
           \/ InList(c, cached_container_names.do_not_restart))
     /\ Len(cached_container_names.restart) + Len(cached_container_names.do_not_restart) = 1

\* the answer check_container_is_restartable gives for c in the current state
Lookup(c) == check_container_is_restartable(State, c).ret
\* list l1 is the beginning of list l2
IsPrefix(l1, l2) == Len(l1) <= Len(l2) /\ \A i \in 1..Len(l1) : l1[i] = l2[i]

\* C21: the two lists of cached_container_names only grow, and a name on the
\* restart list is answered True, a name on the do_not_restart list False, by
\* every lookup from then on.
C21_StableEligibility ==
  /\ [][/\ IsPrefix(cached_container_names.restart, cached_container_names'.restart)
         /\ IsPrefix(cached_container_names.do_not_restart,
                     cached_container_names'.do_not_restart)]_vars
  /\ [](\A c \in Containers :
          /\ (InList(c, cached_container_names.restart) => Lookup(c))
          /\ (InList(c, cached_container_names.do_not_restart) => ~Lookup(c)))

\* a name was denied at its first lookup and looked up again for a later event
C21_Witness ==
  /\ cached_container_names.do_not_restart = <<"db-1">>
  /\ Len(History(captured_events, "db-1")) = 3
  /\ parsed_json.status \in {"die", "kill", "stop"}
  /\ requests = <<>>

\* C22: without configured patterns every container is eligible: the die of any
\* compose container, first event of the run (warranted, within the limit),
\* is answered with a restart request for the event's id.
C22_EmptyConfigMatchesAll ==
  [][(/\ PolicyEngine /\ enable_restart /\ ~patterns_configured
      /\ parsed_json = NoEvent
      /\ parsed_json'.status = "die"
      /\ "com.docker.compose.service" \in parsed_json'.attrs)
       => /\ Requested
          /\ requests'[Len(requests')].id = parsed_json'.id
          /\ InList(parsed_json'.name, cached_container_names'.restart)]_vars

\* C23: a step that hands a policy mail to the mail server leaves the process
\* running whatever the server answers; after a limit-reached mail mail_sent is
\* set, after a success mail the occasion of the restart is on record.
C23_NotifierFailuresSwallowed ==
  [][Len(mails') = Len(mails) + 1
       => LET m == mails'[Len(mails')] IN
          /\ raised' = NoError
          /\ (m.subject = "Maximum restart count is reached"
                => MailSent(restarts', m.container))
          /\ (m.subject = "Restarting container"
                => /\ Occ(restarts', m.container) # <<>>
                   /\ Occ(restarts', m.container)[Len(Occ(restarts', m.container))] = now')]_vars

\* C26: a restart request answered with another status than 204 leaves the
\* process running, so that the events after it are still read and processed.
C26_FailedRestartNotFatal ==
  [][(Requested /\ requests'[Len(requests')].status # HTTP_NO_CONTENT)
       => raised' = NoError]_vars

\* what the recv of this step returned, and data as the loop joins it
Received == SubSeq(unread, 1, Len(unread) - Len(unread'))
Data == buf \o utf8_decode(Received).text
\* data begins with a complete frame: size line, size characters, \r\n
CompleteFrame(data) ==
  /\ find_crlf(data) # 0
  /\ int16(SubSeq(data, 1, find_crlf(data) - 1)).ok
  /\ Len(data) >= find_crlf(data) + int16(SubSeq(data, 1, find_crlf(data) - 1)).value + 3
FrameSize(data) == int16(SubSeq(data, 1, find_crlf(data) - 1)).value
FramePayload(data) == SubSeq(data, find_crlf(data) + 2, find_crlf(data) + 1 + FrameSize(data))
AfterFrame(data) == SubSeq(data, find_crlf(data) + FrameSize(data) + 4, Len(data))
\* this step is a pass of the loop whose read completes a frame
CompletesFrame ==
  /\ pc = "loop" /\ raised = NoError /\ unread' # unread
  /\ utf8_decode(Received).ok
  /\ CompleteFrame(Data)

\* C24: a pass of the loop that completes a frame whose payload is not valid
\* JSON calls no callback, changes no policy state, raises nothing and drops
\* the frame from buf, so that the frames after it are delivered.
C24_MalformedEventSkipped ==
  [][(/\ CompletesFrame
      /\ FrameSize(Data) > 0
      /\ ~json_loads(FramePayload(Data)).ok)
       => /\ callback_calls' = callback_calls
          /\ UNCHANGED policy_vars
          /\ raised' = NoError
          /\ buf' = AfterFrame(Data)]_vars

\* C27: a pass of the loop that completes a frame of size 0 calls no callback
\* and ends the loop as an end of stream (EOFError, exit status 0), not with
\* an error.
C27_ZeroLengthFrameEndsStream ==
  [][(CompletesFrame /\ FrameSize(Data) = 0)
       => /\ callback_calls' = callback_calls
          /\ raised' \in {NoError, "EOFError"}]_vars

\* C25: once the peer has closed the stream after the header (a recv of the
\* loop returns nothing) or the user has interrupted, no callback is called and
\* no policy state changes any more, the socket is closed before the process
\* ends, and the process ends with exit status 0.
C25_CleanEnd ==
  /\ [][(raised \in {"EOFError", "KeyboardInterrupt"})
          => (/\ callback_calls' = callback_calls
              /\ UNCHANGED policy_vars
              /\ raised' = raised
              /\ pc' \in {"closed", "exit 0"}
              /\ (pc = "closed" <=> pc' = "exit 0"))]_vars
  /\ ((pc = "loop" /\ unread = <<>> /\ raised = NoError) ~> (pc = "exit 0"))
  /\ ((raised = "KeyboardInterrupt") ~> (pc = "exit 0"))

\* an event was delivered, then the peer closed the stream and the process ended
C25_Witness ==
  /\ pc = "exit 0"
  /\ raised = "EOFError"
  /\ callback_calls # <<>>
  /\ unread = <<>>

\* C28: a step that processes a stop or a kill appends the event to the history
\* of its container and delivers no notification, sends no restart request and
\* sends no mail, whatever the stamp of the event and whatever the history holds.
C28_StopKillEmitNothing ==
  [][(/\ parsed_json'.status \in {"stop", "kill"}
      /\ (engine = "DockerMon" => enable_restart))
       => LET c == parsed_json'.name IN
          /\ History(captured_events', c)
               = Append(History(captured_events, c),
                        DockerEvent(parsed_json'.status, c, parsed_json'.time))
          /\ notifications' = notifications
          /\ requests' = requests
          /\ mails' = mails]_vars

\* C29: every pass of the loop that decodes an event calls the callback with
\* that event exactly once, and a failure of the callback neither ends the run
\* nor keeps the restart block from evaluating the event.
C29_SinkSeesEveryEventFirst ==
  [][/\ callback_calls' = Append(callback_calls, parsed_json')
     /\ raised' # "OSError"]_vars

Decisions(s) ==
  [requests |-> s.requests, mails |-> s.mails, raised |-> s.raised,
   records |-> [c \in DOMAIN s.restarts |->
                  [count |-> Len(s.restarts[c].occasions),
                   mail_sent |-> s.restarts[c].mail_sent]]]
\* the handler of the engine
Handle(s, ev, t, status, smtp_ok) ==
  IF engine = "DockerMon" THEN watch_event(s, ev, t, status, smtp_ok)
  ELSE handle_docker_event(s, ev, t, status, smtp_ok)
NonDecreasing(o) == \A i \in 1..(Len(o) - 1) : o[i] <= o[i + 1]

\* C31: the occasions of every container are non-decreasing, and a step decides
\* (requests, mails, number of occasions, mail_sent) what it would decide had
\* the clock advanced from its last reading by the seconds truly elapsed.
C31_ClockJumpImmune ==
  /\ [](\A c \in DOMAIN restarts : NonDecreasing(restarts[c].occasions))
  /\ [][\E status \in HttpStatuses, smtp_ok \in BOOLEAN :
          LET t0 == now + (monotonic' - monotonic)
              ev0 == [parsed_json' EXCEPT !.time = t0]
          IN Decisions([requests |-> requests', mails |-> mails', raised |-> raised',
                        restarts |-> restarts'])
               = Decisions(Handle(State, ev0, t0, status, smtp_ok))]_vars

C33_ComposeOrSwarm ==
  [][(/\ PolicyEngine /\ enable_restart
      /\ parsed_json = NoEvent
      /\ parsed_json'.status = "die"
      /\ MatchesSomePattern(parsed_json'.name)
      /\ parsed_json'.attrs \cap {"com.docker.compose.service",
                                  "com.docker.swarm.service.name"} # {})
       => (/\ Requested
           /\ requests'[Len(requests')].id = parsed_json'.id
           /\ raised' # "KeyError")]_vars

\* C34: a start or health_status: healthy processed for a container whose
\* restart record exists with no occasions raises nothing and leaves the record
\* with no occasions and mail_sent false.
C34_StartAfterReset ==
  [][(/\ PolicyEngine /\ enable_restart
      /\ parsed_json'.status \in {"start", "health_status: healthy"}
      /\ parsed_json'.name \in DOMAIN restarts
      /\ restarts[parsed_json'.name].occasions = <<>>)
       => (/\ raised' = NoError
           /\ restarts'[parsed_json'.name].occasions = <<>>
           /\ ~restarts'[parsed_json'.name].mail_sent)]_vars

\* C35: whenever the loop is about to block in sock.recv, no complete frame is
\* left in buf: every complete frame received has been handed to the callback.
C35_NoBufferedFrameWaits ==
  (pc = "loop" /\ raised = NoError) => ~CompleteFrame(buf)

\* the entries of list l2 after the first Len(l1)
Added(l1, l2) == SubSeq(l2, Len(l1) + 1, Len(l2))

\* C36: a step that processes an event of container a leaves, for every other
\* container b, the history, the restart record and the cached eligibility as
\* they were, and sends no restart request for b and no mail about b.
C36_PerContainerIsolation ==
  [][\A b \in Containers \ {parsed_json'.name} :
       /\ History(captured_events', b) = History(captured_events, b)
       /\ (b \in DOMAIN restarts' <=> b \in DOMAIN restarts)
       /\ (b \in DOMAIN restarts => restarts'[b] = restarts[b])
       /\ (InList(b, cached_container_names'.restart)
             <=> InList(b, cached_container_names.restart))
       /\ (InList(b, cached_container_names'.do_not_restart)
             <=> InList(b, cached_container_names.do_not_restart))
       /\ ~\E i \in 1..Len(Added(requests, requests')) :
              Added(requests, requests')[i].id = ContainerId(b)
       /\ ~\E i \in 1..Len(Added(mails, mails')) :
              Added(mails, mails')[i].container = b]_vars

\* web-1 has been restarted, and an event of db-1 was processed after that
C36_Witness ==
  /\ parsed_json.name = "db-1"
  /\ parsed_json.status = "die"
  /\ History(captured_events, "db-1") # <<>>
  /\ History(captured_events, "web-1") # <<>>
  /\ Occ(restarts, "web-1") # <<>>
  /\ InList("web-1", cached_container_names.restart)
  /\ InList("db-1", cached_container_names.do_not_restart)

\* C37: when the peer has closed the connection and read_http_header has not
\* found the end of the header in all that was sent, the read ends with an
\* error.
C37_HeaderReadTerminates ==
  (pc = "header" /\ unread = <<>> /\ raised = NoError) ~> (raised # NoError)

====
